---- MODULE Spec2Model ----
(***************************************************************************)
(* Model of clean_bookmarks.py: the retry loop of check_link_validity and  *)
(* the thread-pool engine of clean_bookmarks.                              *)
(*                                                                         *)
(* A URL is a sequence of one-character strings, so that Python's          *)
(* substring test (`kw in url`) is computed, not assumed.                  *)
(***************************************************************************)
EXTENDS Integers, Sequences, FiniteSets

----------------------------------------------------------------------------
(* Bounds of the model *)

\* longest input list of links the engine is run on
MaxLinks == 2

\* number of links of the document the pool is loaded with (SpecPool)
PoolLinks == 11

----------------------------------------------------------------------------
(* Strings *)

\* Python's `kw in s` on strings: kw occurs as a contiguous slice of s
Contains(kw, s) ==
    \E i \in 1..(Len(s) - Len(kw) + 1) : SubSeq(s, i, i + Len(kw) - 1) = kw

kw_github == <<"g","i","t","h","u","b">>
kw_google == <<"g","o","o","g","l","e">>
kw_huggingface == <<"h","u","g","g","i","n","g","f","a","c","e">>
kw_docker == <<"d","o","c","k","e","r">>
kw_loopback == <<"1","2","7",".","0",".","0",".","1">>
kw_localhost == <<"l","o","c","a","l","h","o","s","t">>

\* line 43
excluded_keywords ==
    <<kw_github, kw_google, kw_huggingface, kw_docker, kw_loopback, kw_localhost>>

\* the literal "2025" of line 130
skip_marker == <<"2","0","2","5">>

\* Sample URLs (scheme omitted, it plays no part in the code)
url_a == <<"a",".","i","o">>
url_b2024 == <<"b","/","2","0","2","4">>
url_githab == <<"g","i","t","h","a","b",".","i","o">>
url_github == kw_github \o <<".","i","o">>
url_google == <<"x","."  >> \o kw_google
url_hf == kw_huggingface \o <<".","c","o">>
url_docker == <<"h","u","b",".">> \o kw_docker
url_loopback == kw_loopback \o <<":","8","0">>
url_localhost == kw_localhost
url_a2025 == <<"a","/">> \o skip_marker
url_docker2025 == kw_docker \o <<"/">> \o skip_marker

\* URLs check_link_validity is called with directly
URLS ==
    { url_a, url_b2024, url_githab, url_github, url_google, url_hf, url_docker,
      url_loopback, url_localhost, url_a2025, url_docker2025 }

\* URLs the input document of the engine is made of
DOC_URLS == { url_a, url_b2024, url_github, url_a2025, url_docker2025 }

----------------------------------------------------------------------------
(* check_link_validity: what one HTTP call can end in *)

\* Python's None in the status_code position of the result
None == -1

\* status codes a server may answer with (around every edge of the tests
\* at lines 62 and 66)
Codes == {199, 200, 301, 399, 400, 403, 404, 500}

\* status codes the engine's runs draw from
EngineCodes == {200, 403, 404}

\* exception classes of requests that requests.get raises
ExcKinds == {"SSLError", "ConnectionError", "Timeout", "RequestException"}

\* requests' class hierarchy: SSLError < ConnectionError < RequestException,
\* Timeout < RequestException
Bases(kind) ==
    CASE kind = "SSLError" -> {"SSLError", "ConnectionError", "RequestException"}
      [] kind = "ConnectionError" -> {"ConnectionError", "RequestException"}
      [] kind = "Timeout" -> {"Timeout", "RequestException"}
      [] kind = "RequestException" -> {"RequestException"}
      [] OTHER -> {}

\* `except (c1, c2, ...)` matches an exception of class kind
Catches(classes, kind) == Bases(kind) \cap classes # {}

\* outcomes of one requests.get: a response with a status code, or an exception
Response(c) == [kind |-> "response", code |-> c]
Raised(k) == [kind |-> k, code |-> None]
OutcomesOver(codes) == {Response(c) : c \in codes} \cup {Raised(k) : k \in ExcKinds}
Outcomes == OutcomesOver(Codes)

\* a slip of line 45: url.startswith(keyword) in place of `keyword in url`
IsExcluded_prefix(url) ==
    \E k \in 1..Len(excluded_keywords) :
        /\ Len(excluded_keywords[k]) <= Len(url)
        /\ SubSeq(url, 1, Len(excluded_keywords[k])) = excluded_keywords[k]

\* line 45
IsExcluded(url) ==
    \E k \in 1..Len(excluded_keywords) : Contains(excluded_keywords[k], url)

\* the values a call ends with: a returned tuple, or an exception leaving it
Tuple(url, c, v) == [kind |-> "tuple", url |-> url, status_code |-> c, is_valid |-> v]
Escaped(url) == [kind |-> "exception", url |-> url, status_code |-> None, is_valid |-> FALSE]
\* the implicit `return None` after the for loop
FellOff(url) == [kind |-> "none", url |-> url, status_code |-> None, is_valid |-> FALSE]

\* lines 62-71: the verdict on the response of the first request of an attempt
ClassifyFirst(code) ==
    IF 200 <= code /\ code < 400 THEN TRUE
    ELSE IF code = 403 THEN TRUE
    ELSE FALSE

\* a slip of lines 78-87: the 403 branch left out of the copy
ClassifyRetry_no403(code) == 200 <= code /\ code < 400

\* lines 78-87: the verdict on the response of the repeated request
ClassifyRetry(code) ==
    IF 200 <= code /\ code < 400 THEN TRUE
    ELSE IF code = 403 THEN TRUE
    ELSE FALSE

max_retries == 5

\* a slip of lines 90, 96, 102: the test for the last attempt never true
IsLastAttempt_never(attempt) == attempt = max_retries

\* a slip of lines 90, 96, 102: giving up one attempt early
IsLastAttempt_early(attempt) == attempt = max_retries - 2

\* lines 90-91, 96-97, 102-103: the handlers' test for the last attempt
IsLastAttempt(attempt) == attempt = max_retries - 1

\* a slip of lines 62-71: a 5xx answer retried like a transport failure
OnGet_retry5xx(url, attempt, o) ==
    IF o.kind = "response" /\ o.code < 500
    THEN [act |-> "return", ret |-> Tuple(url, o.code, ClassifyFirst(o.code))]
    ELSE IF IsLastAttempt(attempt)
    THEN [act |-> "return", ret |-> Tuple(url, None, FALSE)]
    ELSE [act |-> "sleep", ret |-> FellOff(url)]

\* What the loop body does with the outcome o of the request of line 60.
\* act: "return" (with ret), "reget" (enter the SSLError handler, line 74),
\* "sleep" (time.sleep(1), then the next iteration), "raise" (no clause matches)
OnGet(url, attempt, o) ==
    IF o.kind = "response"
    THEN [act |-> "return", ret |-> Tuple(url, o.code, ClassifyFirst(o.code))]
    ELSE IF Catches({"SSLError"}, o.kind)
    THEN [act |-> "reget", ret |-> FellOff(url)]
    ELSE IF Catches({"ConnectionError", "Timeout"}, o.kind)
    THEN IF IsLastAttempt(attempt)
         THEN [act |-> "return", ret |-> Tuple(url, None, FALSE)]
         ELSE [act |-> "sleep", ret |-> FellOff(url)]
    ELSE IF Catches({"RequestException"}, o.kind)
    THEN IF IsLastAttempt(attempt)
         THEN [act |-> "return", ret |-> Tuple(url, None, FALSE)]
         ELSE [act |-> "sleep", ret |-> FellOff(url)]
    ELSE [act |-> "raise", ret |-> Escaped(url)]

\* a slip of lines 88-93: an SSLError of the repeated request repeats it again
OnReGet_again(url, attempt, o) ==
    IF o.kind = "response"
    THEN [act |-> "return", ret |-> Tuple(url, o.code, ClassifyRetry(o.code))]
    ELSE IF Catches({"SSLError"}, o.kind)
    THEN [act |-> "reget", ret |-> FellOff(url)]
    ELSE IF Catches({"RequestException"}, o.kind)
    THEN IF IsLastAttempt(attempt)
         THEN [act |-> "return", ret |-> Tuple(url, None, FALSE)]
         ELSE [act |-> "sleep", ret |-> FellOff(url)]
    ELSE [act |-> "raise", ret |-> Escaped(url)]

\* a slip of line 88: the inner clause as narrow as the one of line 94
OnReGet_narrow(url, attempt, o) ==
    IF o.kind = "response"
    THEN [act |-> "return", ret |-> Tuple(url, o.code, ClassifyRetry(o.code))]
    ELSE IF Catches({"ConnectionError", "Timeout"}, o.kind)
    THEN IF IsLastAttempt(attempt)
         THEN [act |-> "return", ret |-> Tuple(url, None, FALSE)]
         ELSE [act |-> "sleep", ret |-> FellOff(url)]
    ELSE [act |-> "raise", ret |-> Escaped(url)]

\* What the SSLError handler does with the outcome o of the request of line 76
OnReGet(url, attempt, o) ==
    IF o.kind = "response"
    THEN [act |-> "return", ret |-> Tuple(url, o.code, ClassifyRetry(o.code))]
    ELSE IF Catches({"RequestException"}, o.kind)
    THEN IF IsLastAttempt(attempt)
         THEN [act |-> "return", ret |-> Tuple(url, None, FALSE)]
         ELSE [act |-> "sleep", ret |-> FellOff(url)]
    ELSE [act |-> "raise", ret |-> Escaped(url)]

\* the for loop of line 57 goes on with attempt n, or is exhausted
LoopContinues(n) == n < max_retries

\* Every value a call of check_link_validity(url) can end with when the loop
\* is at iteration n and each request ends in one of the outcomes O
RECURSIVE LoopResults(_, _, _)
LoopResults(url, n, O) ==
    IF ~LoopContinues(n) THEN {FellOff(url)}
    ELSE LET first == { OnGet(url, n, o) : o \in O }
             second == IF \E h \in first : h.act = "reget"
                       THEN { OnReGet(url, n, o2) : o2 \in O }
                       ELSE {}
             ends == { h \in first \cup second : h.act \in {"return", "raise"} }
             sleeps == \E h \in first \cup second : h.act = "sleep"
         IN  { h.ret : h \in ends }
                \cup (IF sleeps THEN LoopResults(url, n + 1, O) ELSE {})

\* lines 30-105 as a whole
check_link_validity(url, O) ==
    IF IsExcluded(url) THEN {Tuple(url, 200, TRUE)} ELSE LoopResults(url, 0, O)

\* what a worker's call can end with, per URL of the document
WorkerResults == [u \in DOC_URLS |-> check_link_validity(u, OutcomesOver(EngineCodes))]

----------------------------------------------------------------------------
VARIABLES
    \* clean_bookmarks
    links,          \* the hrefs parse_bookmarks returned, in document order
    pc,             \* where the main thread is
    idx,            \* how many links the comprehension of line 130 has gone through
    futures,        \* the futures list: per future its url, state and result
    queue,          \* the executor's work queue (indices into futures, FIFO)
    worker,         \* per pool thread the future it is running, 0 when it has none
    yielded,        \* the futures as_completed has handed out
    cur,            \* the result unpacked at line 134, while lines 136-143 run
    exc,            \* the exception propagating out of the with block, if any
    valid_links,    \* line 120
    invalid_links,  \* line 121
    progress,       \* the lines printed at 136: <<i, len(links), url>>
    cancelN,        \* history: entries aggregated when the interrupt arrived
    prompted,       \* the count shown by the prompt of line 152, None before it
    soup,           \* the hrefs of the <a> tags of the parsed document
    output_file,    \* what was written to output_file
    answered,       \* what input() returned at line 152, NoAnswer before it
    \* one direct call of check_link_validity
    c_url,      \* its argument
    c_pc,       \* where the call is: "off", "enter", "get", "reget", "sleep", "done"
    attempt,    \* the loop variable of line 57
    trace,      \* the requests issued (with their outcomes) and the sleeps, in order
    c_ret       \* what the call ended with

cvars == <<c_url, c_pc, attempt, trace, c_ret>>

evars == <<links, pc, idx, futures, queue, worker, yielded, cur, exc,
           valid_links, invalid_links, progress, cancelN, prompted, soup,
           output_file, answered>>

vars == <<evars, cvars>>

Sleep1 == [kind |-> "sleep", code |-> 1]

NotReturned == [kind |-> "running", url |-> <<>>, status_code |-> None, is_valid |-> FALSE]

CallStarts ==
    /\ c_url \in URLS
    /\ c_pc = "enter"
    /\ attempt = 0
    /\ trace = <<>>
    /\ c_ret = NotReturned

\* lines 42-57: the allowlist test, then the first iteration
Enter ==
    /\ c_pc = "enter"
    /\ IF IsExcluded(c_url)
       THEN /\ c_pc' = "done"
            /\ c_ret' = Tuple(c_url, 200, TRUE)
       ELSE /\ c_pc' = IF LoopContinues(0) THEN "get" ELSE "done"
            /\ c_ret' = IF LoopContinues(0) THEN c_ret ELSE FellOff(c_url)
    /\ UNCHANGED <<c_url, attempt, trace>>
    /\ UNCHANGED evars

\* applies a handler's decision h
Decide(h) ==
    /\ c_pc' = CASE h.act = "return" -> "done"
                 [] h.act = "raise" -> "done"
                 [] h.act = "reget" -> "reget"
                 [] h.act = "sleep" -> "sleep"
    /\ c_ret' = IF h.act \in {"return", "raise"} THEN h.ret ELSE c_ret

\* lines 58-71 and the except clauses of lines 72, 94, 100 up to the sleep
Get ==
    /\ c_pc = "get"
    /\ \E o \in Outcomes :
         /\ trace' = Append(trace, o)
         /\ Decide(OnGet(c_url, attempt, o))
    /\ UNCHANGED <<c_url, attempt>>
    /\ UNCHANGED evars

\* lines 74-91: the request repeated inside the SSLError handler
ReGet ==
    /\ c_pc = "reget"
    /\ \E o \in Outcomes :
         /\ trace' = Append(trace, o)
         /\ Decide(OnReGet(c_url, attempt, o))
    /\ UNCHANGED <<c_url, attempt>>
    /\ UNCHANGED evars

\* a slip of lines 93, 99, 105: no sleep after the first failure
Sleep_once ==
    /\ c_pc = "sleep"
    /\ trace' = IF attempt = 0 THEN Append(trace, Sleep1) ELSE trace
    /\ attempt' = attempt + 1
    /\ c_pc' = IF LoopContinues(attempt + 1) THEN "get" ELSE "done"
    /\ c_ret' = IF LoopContinues(attempt + 1) THEN c_ret ELSE FellOff(c_url)
    /\ UNCHANGED c_url
    /\ UNCHANGED evars

\* lines 93, 99, 105: time.sleep(1), then the next iteration of the loop
Sleep ==
    /\ c_pc = "sleep"
    /\ trace' = Append(trace, Sleep1)
    /\ attempt' = attempt + 1
    /\ c_pc' = IF LoopContinues(attempt + 1) THEN "get" ELSE "done"
    /\ c_ret' = IF LoopContinues(attempt + 1) THEN c_ret ELSE FellOff(c_url)
    /\ UNCHANGED c_url
    /\ UNCHANGED evars

NextCall == Enter \/ Get \/ ReGet \/ Sleep

CallOff ==
    /\ c_url = <<>>
    /\ c_pc = "off"
    /\ attempt = 0
    /\ trace = <<>>
    /\ c_ret = NotReturned

----------------------------------------------------------------------------
(* clean_bookmarks *)

\* a slip of line 128: one thread too many
max_workers_11 == 10 + 1

max_workers == 10

SeqsUpTo(S, n) == UNION { [1..k -> S] : k \in 0..n }

NoFile == [written |-> FALSE, hrefs |-> <<>>]

\* input() of line 152 has not returned
NoAnswer == "<none>"

EngineStarts(ls) ==
    /\ links = ls
    /\ pc = "submit"
    /\ idx = 0
    /\ futures = <<>>
    /\ queue = <<>>
    /\ worker = [w \in 1..max_workers |-> 0]
    /\ yielded = {}
    /\ cur = NotReturned
    /\ exc = "none"
    /\ valid_links = <<>>
    /\ invalid_links = <<>>
    /\ progress = <<>>
    /\ cancelN = None
    /\ prompted = None
    /\ soup = ls
    /\ output_file = NoFile
    /\ answered = NoAnswer

\* a slip of line 130: the filter left out
IsSkipped_off(link) == FALSE

\* line 130: the filter of the comprehension
IsSkipped(link) == Contains(skip_marker, link)

\* line 130: one iteration of the comprehension; executor.submit queues the call
Submit ==
    /\ pc = "submit"
    /\ idx < Len(links)
    /\ idx' = idx + 1
    /\ IF ~IsSkipped(links[idx + 1])
       THEN /\ futures' = Append(futures, [url |-> links[idx + 1], state |-> "PENDING",
                                           result |-> NotReturned])
            /\ queue' = Append(queue, Len(futures) + 1)
       ELSE UNCHANGED <<futures, queue>>
    /\ UNCHANGED <<links, pc, worker, yielded, cur, exc, valid_links, invalid_links,
                   progress, cancelN, prompted, soup, output_file, answered>>
    /\ UNCHANGED cvars

\* line 132: the comprehension is done, as_completed(futures) is entered
Collect ==
    /\ pc = "submit"
    /\ idx = Len(links)
    /\ pc' = "collect"
    /\ UNCHANGED <<links, idx, futures, queue, worker, yielded, cur, exc, valid_links,
                   invalid_links, progress, cancelN, prompted, soup, output_file, answered>>
    /\ UNCHANGED cvars

\* ThreadPoolExecutor(max_workers=10), line 128: a thread that has no work
\* takes the oldest queued call. Threads are interchangeable: the free thread
\* of least index stands for whichever thread gets the call.
FreeWorkers == { w \in 1..max_workers : worker[w] = 0 }

Start(w) ==
    /\ queue # <<>>
    /\ w \in FreeWorkers
    /\ \A v \in FreeWorkers : w <= v
    /\ worker' = [worker EXCEPT ![w] = Head(queue)]
    /\ futures' = [futures EXCEPT ![Head(queue)].state = "RUNNING"]
    /\ queue' = Tail(queue)
    /\ UNCHANGED <<links, pc, idx, yielded, cur, exc, valid_links, invalid_links,
                   progress, cancelN, prompted, soup, output_file, answered>>
    /\ UNCHANGED cvars

\* a slip of lines 57-105: the call on a link that is not allowlisted never
\* returns (a retry loop without a bound)
Finish_hangs(w) ==
    /\ worker[w] # 0
    /\ IsExcluded(futures[worker[w]].url)
    /\ \E r \in WorkerResults[futures[worker[w]].url] :
         futures' = [futures EXCEPT ![worker[w]].state = "FINISHED",
                                    ![worker[w]].result = r]
    /\ worker' = [worker EXCEPT ![w] = 0]
    /\ UNCHANGED <<links, pc, idx, queue, yielded, cur, exc, valid_links,
                   invalid_links, progress, cancelN, prompted, soup, output_file, answered>>
    /\ UNCHANGED cvars

\* a slip of lines 134-143: the thread itself records an invalid link
Finish_writes(w) ==
    /\ worker[w] # 0
    /\ \E r \in WorkerResults[futures[worker[w]].url] :
         /\ futures' = [futures EXCEPT ![worker[w]].state = "FINISHED",
                                       ![worker[w]].result = r]
         /\ invalid_links' = IF r.kind = "tuple" /\ ~r.is_valid /\ pc = "classify"
                             THEN Append(invalid_links, r.url) ELSE invalid_links
    /\ worker' = [worker EXCEPT ![w] = 0]
    /\ UNCHANGED <<links, pc, idx, queue, yielded, cur, exc, valid_links,
                   progress, cancelN, prompted, soup, output_file, answered>>
    /\ UNCHANGED cvars

\* the thread's call of check_link_validity(link) ends: its value (or the
\* exception it raised) is stored in the future
Finish(w) ==
    /\ worker[w] # 0
    /\ \E r \in WorkerResults[futures[worker[w]].url] :
         futures' = [futures EXCEPT ![worker[w]].state = "FINISHED",
                                    ![worker[w]].result = r]
    /\ worker' = [worker EXCEPT ![w] = 0]
    /\ UNCHANGED <<links, pc, idx, queue, yielded, cur, exc, valid_links,
                   invalid_links, progress, cancelN, prompted, soup, output_file, answered>>
    /\ UNCHANGED cvars

Finished == { f \in 1..Len(futures) : futures[f].state = "FINISHED" }

\* lines 132-136: as_completed yields a finished future not yielded before;
\* future.result() returns the tuple, which is unpacked, or re-raises what the
\* call raised (unpacking None raises TypeError); the progress line is printed
Take(f) ==
    /\ pc = "collect"
    /\ f \in Finished \ yielded
    /\ yielded' = yielded \cup {f}
    /\ IF futures[f].result.kind = "tuple"
       THEN /\ cur' = futures[f].result
            /\ progress' = Append(progress,
                                  <<Cardinality(yielded) + 1, Len(links), futures[f].result.url>>)
            /\ pc' = "classify"
            /\ exc' = exc
       ELSE /\ pc' = "unwind"
            /\ exc' = "Error"
            /\ UNCHANGED <<cur, progress>>
    /\ UNCHANGED <<links, idx, futures, queue, worker, valid_links, invalid_links,
                   cancelN, prompted, soup, output_file, answered>>
    /\ UNCHANGED cvars

\* a slip of lines 138-143: only the valid links are recorded
Aggregate_dropInvalid ==
    /\ pc = "classify"
    /\ IF cur.is_valid
       THEN valid_links' = Append(valid_links, cur.url)
       ELSE valid_links' = valid_links
    /\ invalid_links' = invalid_links
    /\ cur' = NotReturned
    /\ pc' = "collect"
    /\ UNCHANGED <<links, idx, futures, queue, worker, yielded, exc, progress,
                   cancelN, prompted, soup, output_file, answered>>
    /\ UNCHANGED cvars

\* a slip of lines 138-143: the else of line 140 left out
Aggregate_noElse ==
    /\ pc = "classify"
    /\ valid_links' = IF cur.is_valid THEN Append(valid_links, cur.url) ELSE valid_links
    /\ invalid_links' = Append(invalid_links, cur.url)
    /\ cur' = NotReturned
    /\ pc' = "collect"
    /\ UNCHANGED <<links, idx, futures, queue, worker, yielded, exc, progress,
                   cancelN, prompted, soup, output_file, answered>>
    /\ UNCHANGED cvars

\* lines 138-143
Aggregate ==
    /\ pc = "classify"
    /\ IF cur.is_valid
       THEN /\ valid_links' = Append(valid_links, cur.url)
            /\ invalid_links' = invalid_links
       ELSE /\ invalid_links' = Append(invalid_links, cur.url)
            /\ valid_links' = valid_links
    /\ cur' = NotReturned
    /\ pc' = "collect"
    /\ UNCHANGED <<links, idx, futures, queue, worker, yielded, exc, progress,
                   cancelN, prompted, soup, output_file, answered>>
    /\ UNCHANGED cvars

\* the pool has no work left: nothing queued, no thread running a call
PoolIdle == queue = <<>> /\ \A w \in 1..max_workers : worker[w] = 0

\* a slip of lines 128-132: the loop ends when no finished future is left to
\* hand out, and the pool is not waited for
ExitWith_nowait ==
    /\ pc = "collect"
    /\ yielded = Finished
    /\ pc' = "line150"
    /\ UNCHANGED <<links, idx, futures, queue, worker, yielded, cur, exc, valid_links,
                   invalid_links, progress, cancelN, prompted, soup, output_file, answered>>
    /\ UNCHANGED cvars

\* lines 132, 128: as_completed is exhausted and the with block is left;
\* executor.__exit__ is shutdown(wait=True)
ExitWith ==
    /\ pc = "collect"
    /\ yielded = 1..Len(futures)
    /\ PoolIdle
    /\ pc' = "line150"
    /\ UNCHANGED <<links, idx, futures, queue, worker, yielded, cur, exc, valid_links,
                   invalid_links, progress, cancelN, prompted, soup, output_file, answered>>
    /\ UNCHANGED cvars

\* KeyboardInterrupt is raised in the main thread. Inside the try block it
\* first leaves the with block (executor.__exit__ waits for the pool); raised
\* again during that wait it ends the wait and reaches line 144 at once.
\* After the try block (lines 150-152) nothing catches it: it ends
\* clean_bookmarks ("killed").
Interrupt ==
    /\ pc \in {"submit", "collect", "classify", "unwind", "line150", "input"}
    /\ IF pc \in {"submit", "collect", "classify"}
       THEN /\ pc' = "unwind"
            /\ exc' = "KeyboardInterrupt"
            /\ cancelN' = Len(valid_links) + Len(invalid_links)
       ELSE IF pc = "unwind"
       THEN /\ pc' = "cancelled"
            /\ exc' = "KeyboardInterrupt"
            /\ cancelN' = IF cancelN = None
                          THEN Len(valid_links) + Len(invalid_links) ELSE cancelN
       ELSE /\ pc' = "killed"
            /\ exc' = "KeyboardInterrupt"
            /\ cancelN' = cancelN
    /\ UNCHANGED <<links, idx, futures, queue, worker, yielded, cur, valid_links,
                   invalid_links, progress, prompted, soup, output_file, answered>>
    /\ UNCHANGED cvars

\* a slip of line 144: a clause that does not match KeyboardInterrupt
Unwound_uncaught ==
    /\ pc = "unwind"
    /\ PoolIdle
    /\ pc' = "escaped"
    /\ UNCHANGED <<links, idx, futures, queue, worker, yielded, cur, exc, valid_links,
                   invalid_links, progress, cancelN, prompted, soup, output_file, answered>>
    /\ UNCHANGED cvars

\* lines 128, 144-147: shutdown(wait=True) returns once the pool has run every
\* queued call; the exception then leaves the with block: `except
\* KeyboardInterrupt` returns, any other exception leaves clean_bookmarks
Unwound ==
    /\ pc = "unwind"
    /\ PoolIdle
    /\ pc' = IF exc = "KeyboardInterrupt" THEN "cancelled" ELSE "escaped"
    /\ UNCHANGED <<links, idx, futures, queue, worker, yielded, cur, exc, valid_links,
                   invalid_links, progress, cancelN, prompted, soup, output_file, answered>>
    /\ UNCHANGED cvars

\* lines 150-152 and 169-171
Line150 ==
    /\ pc = "line150"
    /\ IF invalid_links # <<>>
       THEN /\ prompted' = Len(invalid_links)
            /\ pc' = "input"
       ELSE /\ prompted' = prompted
            /\ pc' = "done"
    /\ UNCHANGED <<links, idx, futures, queue, worker, yielded, cur, exc, valid_links,
                   invalid_links, progress, cancelN, soup, output_file, answered>>
    /\ UNCHANGED cvars

UserInputs == {"y", "Y", "n", "yes", ""}

\* str.lower() on the answers above
Lower(s) == IF s = "Y" THEN "y" ELSE s

InList(x, list) == \E k \in 1..Len(list) : list[k] = x

\* a slip of line 158: the links left out of the validation are removed too
Decomposed_skipped(tags, invalid) ==
    SelectSeq(tags, LAMBDA h : ~InList(h, invalid) /\ ~Contains(skip_marker, h))

\* lines 156-159: the <a> tags whose href is not in invalid_links stay
Decomposed(tags, invalid) == SelectSeq(tags, LAMBDA h : ~InList(h, invalid))

\* a slip of line 154: the answer is not looked at
Answer_any(user_input) ==
    /\ pc = "input"
    /\ answered' = user_input
    /\ soup' = Decomposed(soup, invalid_links)
    /\ output_file' = [written |-> TRUE, hrefs |-> Decomposed(soup, invalid_links)]
    /\ pc' = "done"
    /\ UNCHANGED <<links, idx, futures, queue, worker, yielded, cur, exc, valid_links,
                   invalid_links, progress, cancelN, prompted>>
    /\ UNCHANGED cvars

\* lines 152-168
Answer(user_input) ==
    /\ pc = "input"
    /\ answered' = user_input
    /\ IF Lower(user_input) = "y"
       THEN /\ soup' = Decomposed(soup, invalid_links)
            /\ output_file' = [written |-> TRUE, hrefs |-> Decomposed(soup, invalid_links)]
       ELSE UNCHANGED <<soup, output_file>>
    /\ pc' = "done"
    /\ UNCHANGED <<links, idx, futures, queue, worker, yielded, cur, exc, valid_links,
                   invalid_links, progress, cancelN, prompted>>
    /\ UNCHANGED cvars

Next ==
    \/ Submit
    \/ Collect
    \/ \E w \in 1..max_workers : Start(w)
    \/ \E w \in 1..max_workers : Finish(w)
    \/ \E f \in 1..Len(futures) : Take(f)
    \/ Aggregate
    \/ ExitWith
    \/ Interrupt
    \/ Unwound
    \/ Line150
    \/ \E a \in UserInputs : Answer(a)

Init ==
    /\ \E ls \in SeqsUpTo(DOC_URLS, MaxLinks) : EngineStarts(ls)
    /\ CallOff

Spec == Init /\ [][Next]_vars

\* One direct call check_link_validity(url), the engine not running
InitCall ==
    /\ CallStarts
    /\ links = <<>>
    /\ pc = "off"
    /\ idx = 0
    /\ futures = <<>>
    /\ queue = <<>>
    /\ worker = [w \in 1..max_workers |-> 0]
    /\ yielded = {}
    /\ cur = NotReturned
    /\ exc = "none"
    /\ valid_links = <<>>
    /\ invalid_links = <<>>
    /\ progress = <<>>
    /\ cancelN = None
    /\ prompted = None
    /\ soup = <<>>
    /\ output_file = NoFile
    /\ answered = NoAnswer

SpecCall == InitCall /\ [][NextCall]_vars

----------------------------------------------------------------------------
(* Properties of check_link_validity, checked under SpecCall *)

\* the allowlist fragments, as the specification lists them
Fragments ==
    { kw_github, kw_google, kw_huggingface, kw_docker, kw_loopback, kw_localhost }

Allowlisted(url) == \E kw \in Fragments : Contains(kw, url)

IsRequest(e) == e.kind # "sleep"
Requests(t) == SelectSeq(t, IsRequest)
IsSleep(e) == e.kind = "sleep"
Sleeps(t) == SelectSeq(t, IsSleep)

TransportKinds == {"ConnectionError", "Timeout", "RequestException"}

AllTransport(t) == \A k \in 1..Len(t) : IsRequest(t[k]) => t[k].kind \in TransportKinds

Verdict(c) == (200 <= c /\ c < 400) \/ c = 403

\* The value a stepwise call ends with is one of the values the engine's
\* threads draw from (LoopResults follows the same handlers as Get, ReGet
\* and Sleep).
CallWithinResults ==
    c_pc = "done" => c_ret \in check_link_validity(c_url, Outcomes)

\* C2: when every request of a call on a non-allowlisted URL fails with a
\* connection, timeout or generic error, requests and 1-second sleeps
\* alternate, starting and ending with a request; the call ends after exactly
\* 5 requests and 4 sleeps with (url, None, False).
T_C2 ==
    (~Allowlisted(c_url) /\ AllTransport(trace)) =>
        /\ \A k \in 1..Len(trace) :
              IF k % 2 = 1 THEN IsRequest(trace[k]) ELSE trace[k] = Sleep1
        /\ Len(trace) <= 9
        /\ c_pc = "done" =>
              /\ c_ret = Tuple(c_url, None, FALSE)
              /\ Len(Requests(trace)) = 5
              /\ Len(Sleeps(trace)) = 4
              /\ IsRequest(trace[Len(trace)])

W_C2 ==
    /\ c_pc = "done"
    /\ c_url = url_a
    /\ AllTransport(trace)
    /\ Len(Requests(trace)) = 5
    /\ c_ret = Tuple(url_a, None, FALSE)

\* C3: a response with a status code is always the last event of the call:
\* the call has returned the tuple carrying that code, whatever the code and
\* whatever the attempt, and no request or sleep follows; a first request
\* answered 404 gives (url, 404, False) after one request.
T_C3 ==
    /\ \A k \in 1..Len(trace) :
          trace[k].kind = "response" =>
              /\ k = Len(trace)
              /\ c_pc = "done"
              /\ c_ret.kind = "tuple"
              /\ c_ret.url = c_url
              /\ c_ret.status_code = trace[k].code
    /\ (Len(trace) >= 1 /\ trace[1] = Response(404)) =>
          /\ c_ret = Tuple(c_url, 404, FALSE)
          /\ Len(trace) = 1

W_C3 ==
    /\ c_pc = "done"
    /\ attempt = 4
    /\ trace[Len(trace)] = Response(500)
    /\ c_ret = Tuple(c_url, 500, FALSE)

\* C4: the tuple returned for a non-allowlisted URL carries the status code of
\* the response that ended the call (first request or repeated request), and
\* is_valid is true exactly for 200 <= c < 400 and c = 403; a tuple without
\* status code has is_valid false.
T_C4 ==
    (c_pc = "done" /\ ~Allowlisted(c_url)) =>
        /\ c_ret.kind = "tuple"
        /\ trace[Len(trace)].kind = "response" =>
              /\ c_ret.status_code = trace[Len(trace)].code
              /\ c_ret.is_valid = Verdict(trace[Len(trace)].code)
        /\ c_ret.status_code = None => c_ret.is_valid = FALSE
        /\ trace[Len(trace)].kind # "response" => c_ret.status_code = None

W_C4 ==
    /\ c_pc = "done"
    /\ trace = <<Raised("SSLError"), Response(403)>>
    /\ c_ret = Tuple(c_url, 403, TRUE)

\* C5: a call on a URL containing an allowlist fragment issues no request and
\* no sleep, and returns (url, 200, True).
T_C5 ==
    Allowlisted(c_url) =>
        /\ trace = <<>>
        /\ c_pc \in {"enter", "done"}
        /\ c_pc = "done" => c_ret = Tuple(c_url, 200, TRUE)

W_C5 ==
    /\ c_pc = "done"
    /\ c_url = url_google
    /\ c_ret = Tuple(url_google, 200, TRUE)

\* C7: when the requests of attempts 1..k-1 fail with connection errors and
\* the request of attempt k is answered with code c, the call returns
\* (url, c, verdict of c) after exactly k requests and k-1 sleeps of 1 second.
ConnThenResponse(rs) ==
    /\ Len(rs) >= 1
    /\ rs[Len(rs)].kind = "response"
    /\ \A k \in 1..(Len(rs) - 1) : rs[k] = Raised("ConnectionError")

T_C7 ==
    (~Allowlisted(c_url) /\ ConnThenResponse(Requests(trace))) =>
        LET k == Len(Requests(trace))
            c == trace[Len(trace)].code
        IN  /\ k \in 1..5
            /\ attempt = k - 1
            /\ Len(Sleeps(trace)) = k - 1
            /\ \A j \in 1..Len(trace) : IsSleep(trace[j]) => trace[j] = Sleep1
            /\ c_pc = "done"
            /\ c_ret = Tuple(c_url, c, Verdict(c))

W_C7 ==
    /\ c_pc = "done"
    /\ trace = <<Raised("ConnectionError"), Sleep1, Raised("ConnectionError"), Sleep1,
                 Response(200)>>
    /\ c_ret = Tuple(c_url, 200, TRUE)

----------------------------------------------------------------------------
(* Properties of clean_bookmarks, checked under Spec *)

Count(x, list) == Cardinality({ k \in 1..Len(list) : list[k] = x })

Has2025(url) == Contains(<<"2","0","2","5">>, url)

\* the with block was left without an exception
ValidateReturned == pc \in {"line150", "input", "done", "killed"}

\* C1: when the with block has been left without interrupt, valid_links and
\* invalid_links together hold as many entries as there are input links
\* without "2025", and each such link occurrence is in them exactly once
\* (per URL, as often as it occurs in the input), each future having been
\* handed out once.
T_C1 ==
    ValidateReturned =>
        /\ Len(valid_links) + Len(invalid_links)
              = Cardinality({ k \in 1..Len(links) : ~Has2025(links[k]) })
        /\ \A u \in DOC_URLS :
              Count(u, valid_links) + Count(u, invalid_links)
                  = IF Has2025(u) THEN 0 ELSE Count(u, links)
        /\ yielded = 1..Len(futures)
        /\ Len(progress) = Len(futures)
        /\ \A f \in 1..Len(futures) : futures[f].state = "FINISHED"

W_C1 ==
    /\ pc = "line150"
    /\ Len(futures) = 2
    /\ Len(valid_links) = 1
    /\ Len(invalid_links) = 1

\* C6: an input URL containing "2025" has no future, is in no queue and on
\* no thread, is never the result being handled and is in neither list, in
\* every reachable state.
T_C6 ==
    \A k \in 1..Len(links) :
        Has2025(links[k]) =>
            /\ \A f \in 1..Len(futures) : futures[f].url # links[k]
            /\ cur.url # links[k]
            /\ ~InList(links[k], valid_links)
            /\ ~InList(links[k], invalid_links)
            /\ \A j \in 1..Len(progress) : progress[j][3] # links[k]

W_C6 ==
    /\ pc = "done"
    /\ Len(links) = 2
    /\ links[1] = url_docker2025
    /\ Len(futures) = 1
    /\ valid_links \o invalid_links = <<links[2]>>

\* C8 as stated: no URL is in both valid_links and invalid_links
CE_C8 ==
    \A u \in DOC_URLS : ~(InList(u, valid_links) /\ InList(u, invalid_links))

\* C8 as amended: no URL that occurs at most once in the input list is in
\* both valid_links and invalid_links, and no URL occurs in the two lists
\* together more often than in the input.
T_C8 ==
    \A u \in DOC_URLS :
        /\ Count(u, links) <= 1 => ~(InList(u, valid_links) /\ InList(u, invalid_links))
        /\ Count(u, valid_links) + Count(u, invalid_links) <= Count(u, links)

W_C8 ==
    /\ pc = "input"
    /\ links = <<url_a, url_b2024>>
    /\ valid_links = <<url_b2024>>
    /\ invalid_links = <<url_a>>

\* the results of the futures handed out by as_completed, per URL and verdict
Completed(u, v) ==
    { f \in yielded : /\ futures[f].state = "FINISHED"
                      /\ futures[f].result.kind = "tuple"
                      /\ futures[f].result.url = u
                      /\ futures[f].result.is_valid = v }

\* C9: once KeyboardInterrupt has arrived inside the try block with N entries
\* aggregated, the call waits for the pool or has returned at line 147 (it
\* never ends with an exception), and the lists hold at most N entries, each
\* the result of a finished future handed out before.
T_C9 ==
    cancelN # None =>
        /\ pc \in {"unwind", "cancelled"}
        /\ pc = "cancelled" => exc = "KeyboardInterrupt"
        /\ Len(valid_links) + Len(invalid_links) <= cancelN
        /\ \A u \in DOC_URLS :
              /\ Count(u, valid_links) <= Cardinality(Completed(u, TRUE))
              /\ Count(u, invalid_links) <= Cardinality(Completed(u, FALSE))

W_C9 ==
    /\ pc = "cancelled"
    /\ cancelN = 1
    /\ Len(futures) = 2
    /\ Len(valid_links) + Len(invalid_links) = 1

\* C10: every finished future holds a tuple (url, status_code, is_valid), no
\* exception other than KeyboardInterrupt ever propagates in the main thread,
\* and the try block never ends with an exception leaving clean_bookmarks.
T_C10 ==
    /\ \A f \in 1..Len(futures) :
          futures[f].state = "FINISHED" =>
              /\ futures[f].result.kind = "tuple"
              /\ futures[f].result.url = futures[f].url
              /\ futures[f].result.is_valid \in BOOLEAN
    /\ exc # "Error"
    /\ pc # "escaped"

W_C10 ==
    /\ pc = "done"
    /\ Len(futures) = 2
    /\ futures[1].result = Tuple(url_a, None, FALSE)
    /\ futures[2].result = Tuple(url_a, 404, FALSE)

----------------------------------------------------------------------------
(* The pool under load, checked under SpecPool: a document of PoolLinks     *)
(* allowlisted links is submitted by the comprehension of line 130 while    *)
(* the threads take and run the calls. What the main thread does after the  *)
(* comprehension touches neither the queue nor the threads.                 *)

InitPool ==
    /\ EngineStarts([k \in 1..PoolLinks |-> url_github])
    /\ CallOff

NextPool ==
    \/ Submit
    \/ \E w \in 1..max_workers : Start(w)
    \/ \E w \in 1..max_workers : Finish(w)

SpecPool == InitPool /\ [][NextPool]_vars

InState(st) == { f \in 1..Len(futures) : futures[f].state = st }

InQueue == { queue[k] : k \in 1..Len(queue) }

OnThreads == { worker[w] : w \in DOMAIN worker } \ {0}

\* C11: at most 10 calls of check_link_validity are running at once, however
\* many were submitted; every submitted call is waiting in the queue (not
\* started), running on exactly one thread, or finished; and a call beyond
\* the tenth has left the queue only if enough earlier calls have finished to
\* free a thread for it.
T_C11 ==
    /\ Cardinality(InState("RUNNING")) <= 10
    /\ Cardinality(OnThreads) <= 10
    /\ OnThreads = InState("RUNNING")
    /\ InQueue = InState("PENDING")
    /\ \A v, w \in DOMAIN worker : (v # w /\ worker[v] # 0) => worker[v] # worker[w]
    /\ \A f \in 1..Len(futures) :
          futures[f].state # "PENDING" => Cardinality(InState("FINISHED")) >= f - 10

W_C11 ==
    /\ Len(futures) = 11
    /\ Cardinality(InState("RUNNING")) = 10
    /\ queue = <<11>>
    /\ futures[11].state = "PENDING"

----------------------------------------------------------------------------
(* The confirmation gate, checked under Spec *)

Affirmative(a) == a # NoAnswer /\ Lower(a) = "y"

\* C12: the output file is written only when the validation ran to its end
\* without an interrupt, at least one invalid link was found, the prompt
\* showed their count and the answer was affirmative; after a negative
\* answer, with no invalid link (no prompt is shown then) or after an
\* interrupt no file is written and the document is as it was parsed.
T_C12 ==
    /\ output_file.written =>
          /\ pc = "done"
          /\ exc = "none" /\ cancelN = None
          /\ yielded = 1..Len(futures) /\ PoolIdle
          /\ invalid_links # <<>>
          /\ prompted = Len(invalid_links)
          /\ Affirmative(answered)
    /\ ~output_file.written => output_file = NoFile /\ soup = links
    /\ (answered # NoAnswer /\ ~Affirmative(answered)) =>
          pc = "done" /\ ~output_file.written
    /\ (pc = "done" /\ invalid_links = <<>>) =>
          prompted = None /\ answered = NoAnswer /\ ~output_file.written
    /\ (cancelN # None \/ pc \in {"unwind", "cancelled", "escaped", "killed"}) =>
          ~output_file.written /\ answered = NoAnswer

W_C12 ==
    /\ output_file.written
    /\ answered = "Y"
    /\ prompted = 1
    /\ Len(links) = 2
    /\ Len(output_file.hrefs) = 1

----------------------------------------------------------------------------
(* The SSLError handler, checked under SpecCall *)

\* the number of time.sleep(1) calls before event k of the trace
SleepsBefore(k) == Len(Sleeps(SubSeq(trace, 1, k - 1)))

\* event k is the request of line 60: the first request of an iteration
FirstOfAttempt(k) == IsRequest(trace[k]) /\ (k = 1 \/ IsSleep(trace[k - 1]))

\* event k is a request that follows a request without a sleep between them
ReProbe(k) == k > 1 /\ IsRequest(trace[k]) /\ IsRequest(trace[k - 1])

\* C13: when the first request of the n-th iteration (n = 1..5) raises
\* SSLError, the next event is one more request, with no sleep before it and
\* the loop variable unchanged; a status code answered to it ends the call
\* with (url, code, verdict); any exception raised by it (SSLError included)
\* ends the call with (url, None, False) when n = 5 and otherwise leads to
\* time.sleep(1) and iteration n + 1; a request is repeated only after an
\* SSLError of a first request, and never twice in one iteration.
T_C13 ==
    /\ attempt = Len(Sleeps(trace))
    /\ c_pc = "reget" => trace # <<>> /\ trace[Len(trace)].kind = "SSLError"
    /\ \A k \in 1..Len(trace) : ReProbe(k) =>
          FirstOfAttempt(k - 1) /\ trace[k - 1].kind = "SSLError"
    /\ \A k \in 1..Len(trace) :
          (FirstOfAttempt(k) /\ trace[k].kind = "SSLError") =>
             IF k = Len(trace)
             THEN c_pc = "reget" /\ attempt = SleepsBefore(k)
             ELSE LET o == trace[k + 1]
                      n == SleepsBefore(k) + 1
                  IN  /\ IsRequest(o)
                      /\ IF o.kind = "response"
                         THEN /\ k + 1 = Len(trace)
                              /\ c_pc = "done"
                              /\ c_ret = Tuple(c_url, o.code, Verdict(o.code))
                         ELSE IF n = 5
                         THEN /\ k + 1 = Len(trace)
                              /\ c_pc = "done"
                              /\ c_ret = Tuple(c_url, None, FALSE)
                         ELSE IF k + 1 = Len(trace)
                         THEN c_pc = "sleep" /\ attempt = n - 1
                         ELSE trace[k + 2] = Sleep1 /\ attempt >= n

W_C13 ==
    /\ c_pc = "done"
    /\ Len(trace) = 10
    /\ trace[9].kind = "SSLError"
    /\ trace[10].kind = "SSLError"
    /\ c_ret = Tuple(c_url, None, FALSE)

----------------------------------------------------------------------------
(* Cancellation and the pool, checked under Spec *)

Interrupted == exc = "KeyboardInterrupt"

\* C14 (as claimed): once KeyboardInterrupt has been raised in the main
\* thread no queued call is started any more (a call still waiting in the
\* queue stays unstarted), and clean_bookmarks returns while calls are still
\* queued if there are any. The code leaves the with block through
\* executor.__exit__, which is shutdown(wait=True): the threads go on taking
\* the queued calls and the main thread waits for them.
CE_C14 ==
    [][ Interrupted =>
          /\ \A f \in 1..Len(futures) :
                futures[f].state = "PENDING" => futures'[f].state = "PENDING"
          /\ (pc = "unwind" /\ queue # <<>>) => queue' = queue ]_vars

----------------------------------------------------------------------------
(* Who writes valid_links and invalid_links, checked under Spec *)

IsPrefix(s, t) == Len(s) <= Len(t) /\ SubSeq(t, 1, Len(s)) = s

\* C15: every step that changes valid_links or invalid_links is the main
\* thread's step of lines 138-143 on the one result it has unpacked: it
\* appends that result's url to exactly one of the two lists and leaves the
\* futures, the queue and the threads as they are; a step of a pool thread
\* (a call started or finished) changes neither list; and the main thread
\* holds no unpacked result when it asks as_completed for the next future,
\* so it is done with one result before it takes the next.
T_C15 ==
    [][ /\ (valid_links' # valid_links \/ invalid_links' # invalid_links) =>
              /\ pc = "classify" /\ pc' = "collect"
              /\ cur.kind = "tuple" /\ cur' = NotReturned
              /\ <<futures', queue', worker', yielded'>> = <<futures, queue, worker, yielded>>
              /\ IF cur.is_valid
                 THEN valid_links' = Append(valid_links, cur.url) /\ invalid_links' = invalid_links
                 ELSE invalid_links' = Append(invalid_links, cur.url) /\ valid_links' = valid_links
        /\ (worker' # worker \/ futures' # futures) =>
              valid_links' = valid_links /\ invalid_links' = invalid_links
        /\ IsPrefix(valid_links, valid_links') /\ IsPrefix(invalid_links, invalid_links')
        /\ pc = "classify" => cur.kind = "tuple"
        /\ pc = "collect" => cur = NotReturned
        /\ yielded' # yielded => cur = NotReturned ]_vars

W_C15 ==
    /\ pc = "collect"
    /\ Len(invalid_links) = 1
    /\ Len(valid_links) = 0
    /\ \E w \in 1..max_workers : worker[w] # 0
    /\ Cardinality(yielded) = 1

----------------------------------------------------------------------------
(* The progress lines of line 136, checked under Spec *)

\* C16 (as claimed): one progress line per future handed out by
\* as_completed, in that order; the k-th line carries the count k, the url
\* of the result just unpacked and, as total, the number of calls that were
\* submitted (the links without "2025"), so that the last line of a run that
\* was not interrupted carries count = total. The code prints len(links) as
\* the total, which counts the links with "2025" too.
CE_C16 ==
    /\ Len(progress) = Cardinality(yielded)
    /\ \A k \in 1..Len(progress) :
          /\ progress[k][1] = k
          /\ progress[k][2] = Len(futures)
          /\ \E f \in yielded : futures[f].result.url = progress[k][3]
    /\ pc = "classify" => progress[Len(progress)][3] = cur.url
    /\ (pc = "line150" /\ progress # <<>>) =>
          progress[Len(progress)][1] = progress[Len(progress)][2]

----------------------------------------------------------------------------
(* When the lists are read, checked under Spec *)

\* C17: invalid_links is read (line 150), its count shown (152), the answer
\* taken and the file written only when every submitted call has finished
\* and its result has been appended to one of the two lists: from line 150
\* on no call is queued or running and the lists hold one entry per future.
T_C17 ==
    (ValidateReturned \/ prompted # None \/ answered # NoAnswer \/ output_file.written) =>
        /\ ValidateReturned
        /\ queue = <<>>
        /\ \A w \in 1..max_workers : worker[w] = 0
        /\ \A f \in 1..Len(futures) : futures[f].state = "FINISHED"
        /\ yielded = 1..Len(futures)
        /\ cur = NotReturned
        /\ Len(valid_links) + Len(invalid_links) = Len(futures)
        /\ idx = Len(links)

W_C17 ==
    /\ pc = "input"
    /\ Len(futures) = 2
    /\ prompted = 1
    /\ Len(valid_links) = 1

----------------------------------------------------------------------------
(* The rewritten document, checked under Spec *)

\* the order of s is kept in t: s is t with some entries left out
RECURSIVE IsSubSeq(_, _)
IsSubSeq(s, t) ==
    IF s = <<>> THEN TRUE
    ELSE IF t = <<>> THEN FALSE
    ELSE IF Head(s) = Head(t) THEN IsSubSeq(Tail(s), Tail(t))
    ELSE IsSubSeq(s, Tail(t))

\* C18: in the file written after an affirmative answer, a link is gone
\* exactly when its href is an entry of invalid_links: every occurrence of
\* such an href is removed, every occurrence of any other href is kept, in
\* document order; every link with "2025" in it and every link with an
\* allowlist fragment in it is kept.
T_C18 ==
    output_file.written =>
        /\ soup = output_file.hrefs
        /\ IsSubSeq(output_file.hrefs, links)
        /\ \A u \in DOC_URLS :
              Count(u, output_file.hrefs) =
                 IF \E k \in 1..Len(invalid_links) : invalid_links[k] = u
                 THEN 0 ELSE Count(u, links)
        /\ \A u \in DOC_URLS :
              (Has2025(u) \/ Allowlisted(u)) =>
                 Count(u, output_file.hrefs) = Count(u, links)

W_C18 ==
    /\ output_file.written
    /\ Len(links) = 2
    /\ invalid_links = <<url_a>>
    /\ output_file.hrefs = <<url_a2025>>

----------------------------------------------------------------------------
(* The end of a call, checked under SpecCall *)

\* C19: a call of check_link_validity goes through at most 5 iterations of
\* the loop, issues at most 10 requests and sleeps at most 4 times; as long
\* as it has not returned it can take a step, and it ends only by returning
\* a tuple: (url, code, True) or (url, code, False) for a status code
\* received, or (url, None, False); the latter only when the last request of
\* the 5th iteration raised an exception.
T_C19 ==
    /\ attempt \in 0..4
    /\ Len(Requests(trace)) <= 10
    /\ Len(Sleeps(trace)) <= 4
    /\ \A k \in 1..Len(trace) : IsRequest(trace[k]) => SleepsBefore(k) + 1 <= 5
    /\ c_pc # "done" => c_ret = NotReturned /\ ENABLED NextCall
    /\ c_pc = "done" =>
          /\ c_ret.kind = "tuple"
          /\ c_ret.url = c_url
          /\ IF c_ret.status_code = None
             THEN /\ ~c_ret.is_valid
                  /\ trace # <<>>
                  /\ trace[Len(trace)].kind \in ExcKinds
                  /\ SleepsBefore(Len(trace)) + 1 = 5
             ELSE /\ c_ret.status_code \in Codes
                  /\ c_ret.is_valid = Verdict(c_ret.status_code)

W_C19 ==
    /\ c_pc = "done"
    /\ Len(Requests(trace)) = 10
    /\ Len(Sleeps(trace)) = 4
    /\ c_ret = Tuple(url_b2024, None, FALSE)

----------------------------------------------------------------------------
(* A run that is not interrupted, with threads that are scheduled fairly:  *)
(* lines 126-143 up to the end of the with block, checked under SpecFair   *)

MainThread ==
    \/ Submit
    \/ Collect
    \/ \E f \in 1..Len(futures) : Take(f)
    \/ Aggregate
    \/ ExitWith

PoolThread(w) == Start(w) \/ Finish(w)

NextFair == MainThread \/ \E w \in 1..max_workers : PoolThread(w)

\* the main thread takes a step it can take, and so does the pool: a thread
\* that can take a queued call takes it, and a call that has started ends
\* (every request returns an outcome, line 60 has a timeout, and the loop is
\* bounded). No thread is required to be faster than another.
Fairness ==
    /\ WF_vars(MainThread)
    /\ WF_vars(\E w \in 1..max_workers : PoolThread(w))

SpecFair == Init /\ [][NextFair]_vars /\ Fairness

AllAggregated ==
    /\ idx = Len(links)
    /\ \A f \in 1..Len(futures) : futures[f].state = "FINISHED"
    /\ yielded = 1..Len(futures)
    /\ Len(valid_links) + Len(invalid_links) = Len(futures)

\* C20: without an interrupt and with fairly scheduled threads, every run
\* over a finite list of links comes to the end of the with block with
\* every submitted call finished and its result in one of the two lists
\* (so every queued call is started and every started call finishes); a
\* thread takes a call only when it runs none and gives up the call it runs
\* only when that call has finished, and a step of one thread leaves what
\* the other threads are running as it is.
T_C20 ==
    /\ <>(pc = "line150" /\ AllAggregated)
    /\ [][ \A w \in 1..max_workers :
             worker'[w] # worker[w] =>
                /\ \/ /\ worker[w] = 0
                      /\ futures[worker'[w]].state = "PENDING"
                      /\ futures'[worker'[w]].state = "RUNNING"
                   \/ /\ worker'[w] = 0
                      /\ futures[worker[w]].state = "RUNNING"
                      /\ futures'[worker[w]].state = "FINISHED"
                /\ \A v \in 1..max_workers : v # w => worker'[v] = worker[v] ]_vars

W_C20 ==
    /\ pc = "line150"
    /\ AllAggregated
    /\ Len(futures) = 2
    /\ Len(invalid_links) = 2

====
